---- MODULE Spec2Model ----
(***************************************************************************)
(* A model of easygp's acquisition-policy layer (easygp/policy.py) and of  *)
(* the part of the logging set-up (easygp/__init__.py) that decides what   *)
(* logger.critical does.                                                   *)
(*                                                                         *)
(* Python values are records [k, v]: k is the kind ("float", "inf", "nan", *)
(* "None", or the name of a raised exception), v the integer payload.      *)
(* Floats are a binary floating-point format on the integer grid: a       *)
(* significand of Precision bits, results rounded to the nearest           *)
(* representable value, ties to the even significand; +inf, -inf and NaN   *)
(* keep their IEEE-754 behaviour.  Points are tuples of grid coordinates.  *)
(***************************************************************************)
EXTENDS Integers, Sequences, FiniteSets, TLC

(***************************************************************************)
(* Bounds of the model.                                                    *)
(***************************************************************************)
MaxRestarts == 2
NSamples == 2

\* The width of a float's significand (53 in Python's floats).
Precision == 4

(***************************************************************************)
(* Python values.                                                          *)
(***************************************************************************)
None == [k |-> "None", v |-> 0]
NaN == [k |-> "nan", v |-> 0]
PosInf == [k |-> "inf", v |-> 1]
NegInf == [k |-> "inf", v |-> -1]
Num(n) == [k |-> "float", v |-> n]
Raise(e) == [k |-> e, v |-> 0]

Exceptions == {"TypeError", "AttributeError", "AssertionError"}
IsRaise(a) == a.k \in Exceptions
IsFinite(a) == a.k = "float"

\* The spacing of the representable values around m: 1 below 2^Precision,
\* doubling with every further binary digit.
Abs(m) == IF m < 0 THEN -m ELSE m
RECURSIVE Ulp(_, _)
Ulp(m, q) == IF Abs(m) <= q * (2 ^ Precision) THEN q ELSE Ulp(m, 2 * q)

\* The multiple of d nearest to m, as a count of d's; of two equally near,
\* the even one.
NearestEven(m, d) ==
    IF 2 * (m % d) < d THEN m \div d
    ELSE IF 2 * (m % d) > d THEN (m \div d) + 1
    ELSE IF (m \div d) % 2 = 0 THEN m \div d
    ELSE (m \div d) + 1

\* The float nearest to the exact result m of an operation.
Round(m) ==
    IF Abs(m) <= 2 ^ Precision THEN m
    ELSE LET q == Ulp(m, 2) IN q * NearestEven(m, q)

\* The value of an operand pair before the operator is applied: an exception
\* raised while evaluating an operand propagates (left operand first), and
\* None is no operand of an arithmetic operator.
Operands(a, b) ==
    IF IsRaise(a) THEN a
    ELSE IF IsRaise(b) THEN b
    ELSE IF a = None \/ b = None THEN Raise("TypeError")
    ELSE Num(0)

\* Unary minus.
Neg(a) ==
    IF IsRaise(a) THEN a
    ELSE IF a = None THEN Raise("TypeError")
    ELSE IF a.k = "nan" THEN NaN
    ELSE [a EXCEPT !.v = -a.v]

\* a + b on floats.
Add(a, b) ==
    IF ~IsFinite(Operands(a, b)) THEN Operands(a, b)
    ELSE IF a.k = "nan" \/ b.k = "nan" THEN NaN
    ELSE IF a.k = "inf" /\ b.k = "inf" THEN (IF a.v = b.v THEN a ELSE NaN)
    ELSE IF a.k = "inf" THEN a
    ELSE IF b.k = "inf" THEN b
    ELSE Num(Round(a.v + b.v))

\* a - b on floats.
Sub(a, b) ==
    IF ~IsFinite(Operands(a, b)) THEN Operands(a, b) ELSE Add(a, Neg(b))

\* a * b on floats.
Mul(a, b) ==
    IF ~IsFinite(Operands(a, b)) THEN Operands(a, b)
    ELSE IF a.k = "nan" \/ b.k = "nan" THEN NaN
    ELSE IF a.k = "inf" \/ b.k = "inf"
         THEN (IF a.v = 0 \/ b.v = 0 THEN NaN
               ELSE IF (a.v > 0) = (b.v > 0) THEN PosInf ELSE NegInf)
    ELSE Num(Round(a.v * b.v))

\* a ** 2.
Sq(a) == Mul(a, a)

\* a < b on floats: FALSE whenever an operand is NaN.
Lt(a, b) ==
    /\ a.k \in {"float", "inf"}
    /\ b.k \in {"float", "inf"}
    /\ \/ a = NegInf /\ b # NegInf
       \/ b = PosInf /\ a # PosInf
       \/ a.k = "float" /\ b.k = "float" /\ a.v < b.v

\* a <= b on floats: FALSE whenever an operand is NaN.
Le(a, b) == Lt(a, b) \/ (a = b /\ a.k \in {"float", "inf"})

RECURSIVE SumTo(_, _)
SumTo(arr, n) == IF n = 0 THEN Num(0) ELSE Add(SumTo(arr, n - 1), arr[n])

\* ndarray.sum(): the sum of an array's entries.
ArraySum(arr) == SumTo(arr, Len(arr))

\* np.mean: the sum divided by the number of entries (rounded to the grid);
\* NaN for an empty array.
ArrayMean(arr) ==
    IF Len(arr) = 0 THEN NaN
    ELSE IF ArraySum(arr).k = "float"
         THEN Num((ArraySum(arr).v + (Len(arr) \div 2)) \div Len(arr))
    ELSE ArraySum(arr)

\* np.var: the mean of the squared deviations from the mean.
ArrayVar(arr) ==
    ArrayMean([i \in 1..Len(arr) |-> Sq(Sub(arr[i], ArrayMean(arr)))])

(***************************************************************************)
(* Points, batches and boxes.                                              *)
(***************************************************************************)
\* A missing point (Python's None where an array is expected) and an array.
NoPoint == [k |-> "None", p |-> <<>>]
Pt(p) == [k |-> "ndarray", p |-> p]

\* The array a caller hands to acquisition: a batch of points, shape
\* (n, d), or the flat point, shape (d,), that scipy's minimize hands to f.
Batch(ps) == [flat |-> FALSE, pts |-> ps]
Flat(p) == [flat |-> TRUE, pts |-> <<p>>]
Shape0(x) == IF x.flat THEN Len(x.pts[1]) ELSE Len(x.pts)

\* The grid points p with low_i <= p_i <= high_i for every dimension i.
Box(bounds) ==
    {p \in [1..Len(bounds) ->
                UNION {bounds[i][1]..bounds[i][2] : i \in 1..Len(bounds)}] :
        \A i \in 1..Len(bounds) : bounds[i][1] <= p[i] /\ p[i] <= bounds[i][2]}

InBox(p, bounds) ==
    /\ Len(p) = Len(bounds)
    /\ \A i \in 1..Len(bounds) : bounds[i][1] <= p[i] /\ p[i] <= bounds[i][2]

RECURSIVE CoordSum(_, _)
CoordSum(p, n) == IF n = 0 THEN 0 ELSE CoordSum(p, n - 1) + p[n]

(***************************************************************************)
(* The surrogate model: bounds, predict and sample_y.                      *)
(***************************************************************************)
\* Posterior mean at one point: an intercept plus a slope times the
\* coordinates.
MeanAt(gp, p) == Add(gp.mu, Num(gp.slope * CoordSum(p, Len(p))))

\* gp.predict(x, return_std=True): one mean and one standard deviation per
\* point of x.
predict(gp, x) ==
    [mu |-> [i \in 1..Len(x.pts) |-> MeanAt(gp, x.pts[i])],
     sd |-> [i \in 1..Len(x.pts) |-> gp.sd]]

\* gp.sample_y(x, n_samples): the arrays of n posterior draws per point of x,
\* each draw one standard deviation below or above the mean.
sample_y(gp, x, n) ==
    {r \in [1..(Len(x.pts) * n) ->
               UNION {{Sub(MeanAt(gp, x.pts[i]), gp.sd),
                       Add(MeanAt(gp, x.pts[i]), gp.sd)} : i \in 1..Len(x.pts)}] :
        \A j \in 1..(Len(x.pts) * n) :
            r[j] \in {Sub(MeanAt(gp, x.pts[((j - 1) \div n) + 1]), gp.sd),
                      Add(MeanAt(gp, x.pts[((j - 1) \div n) + 1]), gp.sd)}}

\* The surrogate models and ground-truth functions of the runs.
Models ==
    {[bounds |-> <<(<<0, 1>>)>>, mu |-> Num(0), slope |-> 1, sd |-> Num(1)],
     [bounds |-> <<(<<0, 1>>), (<<1, 1>>)>>, mu |-> Num(1), slope |-> 0, sd |-> Num(3)],
     [bounds |-> <<(<<0, 1>>)>>, mu |-> NaN, slope |-> 0, sd |-> NaN]}

Truths == {[mu |-> Num(0), slope |-> 1], [mu |-> Num(1), slope |-> 0]}

\* truth(x): the ground truth at the estimated point; no value at None.
truth(t, x) ==
    IF x = NoPoint THEN Raise("TypeError") ELSE MeanAt(t, x.p)

(***************************************************************************)
(* The logger (loguru, as easygp/__init__.py configures it).               *)
(***************************************************************************)
AllLevels == {"DEBUG", "INFO", "SUCCESS", "WARNING", "ERROR", "CRITICAL"}

LevelNo(l) ==
    CASE l = "DEBUG" -> 10
      [] l = "INFO" -> 20
      [] l = "SUCCESS" -> 25
      [] l = "WARNING" -> 30
      [] l = "ERROR" -> 40
      [] l = "CRITICAL" -> 50

\* generic_filter(names): the level names a handler lets through.
generic_filter(names) == IF names = {"all"} THEN AllLevels ELSE names

\* logger.add(sink, filter=..., level=...).
Handler(sink, level, filter) == [sink |-> sink, level |-> level, filter |-> filter]

\* The handlers configure_loggers leaves installed: it removes all handlers,
\* adds the stdout and stderr ones and always adds the sink that exits.
ConfiguredHandlers(stdout_filter, stderr_filter) ==
    (IF "DEBUG" \in stdout_filter
        THEN {Handler("stdout", "DEBUG", generic_filter({"DEBUG"}))}
        ELSE {})
    \cup {Handler("stdout", "DEBUG", generic_filter(stdout_filter \ {"DEBUG"})),
          Handler("stderr", "DEBUG", generic_filter(stderr_filter)),
          Handler("sys.exit(1)", "CRITICAL", AllLevels)}

DefaultStderrFilter == {"WARNING", "ERROR", "CRITICAL"}

(***************************************************************************)
(* The policy classes.                                                     *)
(***************************************************************************)
PolicyClasses ==
    {"MaxVariancePolicy", "MaxVarianceTargetPolicy",
     "ExploitationTargetPolicy", "ExpectedImprovementPolicy"}

\* The classes that inherit RequiresTarget and RequiresYbest.
RequiresTarget == {"ExploitationTargetPolicy", "ExpectedImprovementPolicy"}
RequiresYbest == {"ExpectedImprovementPolicy"}

\* BasePolicy.__init__.
BasePolicy_init(cls) ==
    [cls |-> cls, _target |-> None, _ybest |-> None, _weight |-> Num(1)]

\* ExpectedImprovementPolicy.__init__(n_samples=...).
ExpectedImprovementPolicy_init(n_samples) ==
    [cls |-> "ExpectedImprovementPolicy", _target |-> None, _ybest |-> None,
     _weight |-> Num(1), _n_samples |-> n_samples]

\* TargetPerformance.__init__.
TargetPerformance_init ==
    [cls |-> "TargetPerformance",
     _policy |-> BasePolicy_init("ExploitationTargetPolicy"),
     _weight |-> None]

\* A session that holds no object and calls optimize_01 itself.
NoObject == [cls |-> "module"]

\* self.<name>: the instance attribute, AttributeError when there is none
\* (no class of policy.py defines a property).
GetAttr(self, name) ==
    IF name \in DOMAIN self THEN self[name] ELSE Raise("AttributeError")

\* BasePolicy.set_weight, RequiresTarget.set_target, RequiresYbest.set_ybest.
set_weight(self, x) == [self EXCEPT !._weight = x]
set_target(self, x) == [self EXCEPT !._target = x]
set_ybest(self, x) == [self EXCEPT !._ybest = x]

\* Mutant of TargetPerformance_set_weight: the weight forwarded to the
\* internal policy as well.
TargetPerformance_set_weight_forwarded(self, weight) ==
    [self EXCEPT !._weight = weight,
                 !._policy = set_weight(self._policy, weight)]

\* TargetPerformance.set_target and TargetPerformance.set_weight.
TargetPerformance_set_target(self, target) ==
    [self EXCEPT !._policy = set_target(self._policy, target)]
TargetPerformance_set_weight(self, weight) == [self EXCEPT !._weight = weight]

\* Mutant of objective: an unset target counts as zero.
objective_unset_as_zero(self, x) ==
    Neg(Sq(Sub(IF self._target = None THEN Num(0) ELSE self._target, x)))

\* BasePolicy.objective: -((self._target - x) ** 2).
objective(self, x) == Neg(Sq(Sub(self._target, x)))

\* J_samples[J_samples < 0] = 0.
ClipNegative(a) == IF Lt(a, Num(0)) THEN Num(0) ELSE a

\* The posterior draws an acquisition call takes: MaxVarianceTargetPolicy
\* takes sample_y's default of one per point, ExpectedImprovementPolicy
\* _n_samples per point, the other classes none.
Draws(self, x, gp) ==
    IF self.cls = "MaxVarianceTargetPolicy" THEN sample_y(gp, x, 1)
    ELSE IF self.cls = "ExpectedImprovementPolicy"
         THEN (IF Shape0(x) = 1 THEN sample_y(gp, x, self._n_samples) ELSE {<<>>})
    ELSE {<<>>}

\* Mutant of MaxVariancePolicy_acquisition: the weight applied to the
\* deviation before it is squared.
MaxVariancePolicy_acquisition_weighted_sd(self, x, gp) ==
    ArraySum([i \in 1..Len(x.pts) |->
                 Sq(Mul(predict(gp, x).sd[i], self._weight))])

MaxVariancePolicy_acquisition(self, x, gp) ==
    ArraySum([i \in 1..Len(x.pts) |->
                 Mul(Sq(predict(gp, x).sd[i]), self._weight)])

MaxVarianceTargetPolicy_acquisition(self, r_samples) ==
    Mul(ArrayVar([j \in 1..Len(r_samples) |-> objective(self, r_samples[j])]),
        self._weight)

ExploitationTargetPolicy_acquisition(self, x, gp) ==
    ArraySum([i \in 1..Len(x.pts) |->
                 Mul(objective(self, predict(gp, x).mu[i]), self._weight)])

ExpectedImprovementPolicy_acquisition(self, x, r_samples) ==
    IF Shape0(x) # 1 THEN Raise("AssertionError")
    ELSE Mul(ArrayMean([j \in 1..Len(r_samples) |->
                 ClipNegative(Sub(objective(self, r_samples[j]),
                                  GetAttr(self, "ybest")))]),
             self._weight)

\* self.acquisition(x, gp), with r_samples the draws sample_y returns.
acquisition(self, x, gp, r_samples) ==
    CASE self.cls = "MaxVariancePolicy" ->
            MaxVariancePolicy_acquisition(self, x, gp)
      [] self.cls = "MaxVarianceTargetPolicy" ->
            MaxVarianceTargetPolicy_acquisition(self, r_samples)
      [] self.cls = "ExploitationTargetPolicy" ->
            ExploitationTargetPolicy_acquisition(self, x, gp)
      [] self.cls = "ExpectedImprovementPolicy" ->
            ExpectedImprovementPolicy_acquisition(self, x, r_samples)

\* The values one evaluation of aq(x) = -self.acquisition(x, gp) can have.
aq(self, x, gp) ==
    {Neg(acquisition(self, x, gp, r)) : r \in Draws(self, x, gp)}

(***************************************************************************)
(* The inputs of the runs.                                                 *)
(***************************************************************************)
WeightArgs == {None, NaN, Num(0), Num(1), Num(3)}
TargetArgs == {None, Num(0), Num(1)}
YbestArgs == {None, Num(-1), Num(0)}
\* The values a caller's objective f can take at a point.
FunValues == {NaN, PosInf, NegInf, Num(0), Num(1)}
BoundsLists == {<<(<<0, 1>>)>>, <<(<<1, 1>>)>>}
\* The stdout filter of DISABLE_DEBUG(), the set-up made at import.
StdoutFilters == {{"INFO", "SUCCESS"}}

NoModel == [bounds |-> <<>>, mu |-> None, slope |-> 0, sd |-> None]
NoTruth == [mu |-> None, slope |-> 0]
NoResult == [x |-> NoPoint, fun |-> None, success |-> FALSE]
NoFrame == [caller |-> "none", gp |-> NoModel, truth |-> NoTruth,
            bounds |-> <<>>, num_restarts |-> 0]

(***************************************************************************)
(* The state.                                                              *)
(***************************************************************************)
VARIABLES
    activated,   \* loguru: the logger is enabled (logger.enable / disable)
    handlers,    \* loguru: the installed handlers
    _DEBUG,      \* easygp._DEBUG
    self,        \* the object the session holds: a policy, a
                 \* TargetPerformance, or NoObject
    setters,     \* history: the setters called on self so far
    targetArg,   \* history: the value last passed to set_target
    suggested,   \* history: an earlier call of suggest on self has ended
    pc,          \* "idle", "optimize_01" (inside the restart loop),
                 \* "returned" (the call has just ended), "exited"
    frame,       \* the running (or last) optimize_01 call and its caller
    n,           \* optimize_01: the restarts done
    x_0,         \* optimize_01: the last start point
    res,         \* optimize_01: the last result of minimize
    min_f,       \* optimize_01
    min_x,       \* optimize_01
    hist,        \* history: the results of minimize in this call, in order
    critical,    \* history: this call has called logger.critical
    ret          \* the outcome of the last operation

vars == <<activated, handlers, _DEBUG, self, setters, targetArg, suggested,
          pc, frame,
          n, x_0, res, min_f, min_x, hist, critical, ret>>

loggerVars == <<activated, handlers, _DEBUG>>
objectVars == <<self, setters, targetArg, suggested>>
callVars == <<frame, n, x_0, res, min_f, min_x, hist, critical>>

\* The outcome of an operation: how it ended ("return", "raise", "exit"),
\* the value or point it returned and the size of its argument.
Outcome(op, val, x, size) ==
    [op |-> op,
     how |-> IF IsRaise(val) THEN "raise" ELSE "return",
     val |-> val, x |-> x, size |-> size]
Exited(op, size) ==
    [op |-> op, how |-> "exit", val |-> None, x |-> NoPoint, size |-> size]

\* The handlers a message of this level reaches: none while the logger is
\* disabled, else those whose level and filter let it through.
Emitted(level) ==
    IF ~activated THEN {}
    ELSE {h \in handlers :
            LevelNo(level) >= LevelNo(h.level) /\ level \in h.filter}

\* logger.<level>(...) ends the process: the sink that calls sys.exit(1)
\* is reached.
SinkExits(level) == \E h \in Emitted(level) : h.sink = "sys.exit(1)"

Init ==
    /\ activated = TRUE
    /\ handlers = ConfiguredHandlers({"INFO", "SUCCESS"}, DefaultStderrFilter)
    /\ _DEBUG = FALSE
    /\ self \in {NoObject, TargetPerformance_init,
                 ExpectedImprovementPolicy_init(NSamples)}
                \cup {BasePolicy_init(c) :
                        c \in PolicyClasses \ {"ExpectedImprovementPolicy"}}
    /\ setters = {}
    /\ targetArg = None
    /\ suggested = FALSE
    /\ pc = "idle"
    /\ frame = NoFrame
    /\ n = 0
    /\ x_0 = NoPoint
    /\ res = NoResult
    /\ min_f = PosInf
    /\ min_x = NoPoint
    /\ hist = <<>>
    /\ critical = FALSE
    /\ ret = Outcome("__init__", None, NoPoint, 0)

(***************************************************************************)
(* The logger's operations.                                                *)
(***************************************************************************)
\* configure_loggers(stdout_filter=...), as DISABLE_DEBUG() calls it.  Its
\* closing logger.debug reaches no exiting sink.
configure_loggers ==
    /\ pc = "idle"
    /\ \E stdout_filter \in StdoutFilters :
        /\ handlers' = ConfiguredHandlers(stdout_filter, DefaultStderrFilter)
        /\ _DEBUG' = ("DEBUG" \in stdout_filter)
    /\ ret' = Outcome("configure_loggers", None, NoPoint, 0)
    /\ UNCHANGED <<activated, pc, objectVars, callVars>>

\* Entering "with disable_logger():".
disable_logger_enter ==
    /\ pc = "idle"
    /\ activated
    /\ activated' = FALSE
    /\ ret' = Outcome("disable_logger", None, NoPoint, 0)
    /\ UNCHANGED <<handlers, _DEBUG, pc, objectVars, callVars>>

\* Leaving the with block.
disable_logger_exit ==
    /\ pc = "idle"
    /\ ~activated
    /\ activated' = TRUE
    /\ ret' = Outcome("disable_logger", None, NoPoint, 0)
    /\ UNCHANGED <<handlers, _DEBUG, pc, objectVars, callVars>>

(***************************************************************************)
(* The setters.                                                            *)
(***************************************************************************)
\* A setter of a policy: logger.debug(...), then the assignment.
Setter(name, new, arg) ==
    /\ pc = "idle"
    /\ IF SinkExits("DEBUG")
          THEN /\ pc' = "exited"
               /\ ret' = Exited(name, 0)
               /\ UNCHANGED objectVars
          ELSE /\ pc' = pc
               /\ ret' = Outcome(name, None, NoPoint, 0)
               /\ self' = new
               /\ setters' = setters \cup {name}
               /\ targetArg' = IF name = "set_target" THEN arg ELSE targetArg
               /\ suggested' = suggested
    /\ UNCHANGED <<loggerVars, callVars>>

policy_set_weight ==
    /\ self.cls \in PolicyClasses
    /\ \E x \in WeightArgs : Setter("set_weight", set_weight(self, x), x)

policy_set_target ==
    /\ self.cls \in RequiresTarget
    /\ \E x \in TargetArgs : Setter("set_target", set_target(self, x), x)

policy_set_ybest ==
    /\ self.cls \in RequiresYbest
    /\ \E x \in YbestArgs : Setter("set_ybest", set_ybest(self, x), x)

evaluator_set_target ==
    /\ self.cls = "TargetPerformance"
    /\ \E target \in TargetArgs :
        Setter("set_target", TargetPerformance_set_target(self, target), target)

\* TargetPerformance.set_weight logs nothing.
evaluator_set_weight ==
    /\ pc = "idle"
    /\ self.cls = "TargetPerformance"
    /\ \E weight \in WeightArgs :
        self' = TargetPerformance_set_weight(self, weight)
    /\ setters' = setters \cup {"set_weight"}
    /\ ret' = Outcome("set_weight", None, NoPoint, 0)
    /\ UNCHANGED <<loggerVars, targetArg, suggested, pc, callVars>>

(***************************************************************************)
(* acquisition, called by the user.                                        *)
(***************************************************************************)
\* The batches of one and of two points of a model's box.
Batches(gp) ==
    {Batch(<<p>>) : p \in Box(gp.bounds)}
    \cup {Batch(<<p, q>>) : p \in Box(gp.bounds), q \in Box(gp.bounds)}

\* The acquisition of this class calls logger.debug, which ends the process
\* when an exiting sink takes DEBUG messages.
AcquisitionExits(policy) ==
    /\ policy.cls \in {"MaxVariancePolicy", "ExploitationTargetPolicy"}
    /\ SinkExits("DEBUG")

policy_acquisition ==
    /\ pc = "idle"
    /\ self.cls \in PolicyClasses
    /\ \E gp \in Models : \E x \in Batches(gp) : \E r \in Draws(self, x, gp) :
        IF AcquisitionExits(self)
           THEN /\ pc' = "exited"
                /\ ret' = Exited("acquisition", Shape0(x))
           ELSE /\ pc' = pc
                /\ ret' = Outcome("acquisition", acquisition(self, x, gp, r),
                                  NoPoint, Shape0(x))
    /\ UNCHANGED <<loggerVars, objectVars, callVars>>

(***************************************************************************)
(* optimize_01 and its callers.                                            *)
(***************************************************************************)
\* np.random.uniform(low=[b[0] for b in bounds], high=[b[1] for b in bounds]).
UniformDraws(bounds) == Box(bounds)

\* The policy whose acquisition a call of suggest minimises.
Policy == IF self.cls = "TargetPerformance" THEN self._policy ELSE self

\* The values one evaluation of the objective handed to optimize_01 can have
\* at x: anything for a caller's own f, aq(x) for suggest.
f(x) ==
    IF frame.caller = "optimize_01" THEN FunValues
    ELSE aq(Policy, x, frame.gp)

\* Mutant of minimize: called without bounds=bounds, it may leave the box by
\* one grid step.
minimize_unbounded(x0, bounds) ==
    UNION {{[x |-> Pt(p), fun |-> v, success |-> s] :
               v \in {o \in f(Flat(p)) : ~IsRaise(o)}, s \in BOOLEAN} :
           p \in Box([i \in 1..Len(bounds) |->
                        <<bounds[i][1] - 1, bounds[i][2] + 1>>])}

\* minimize(f, x_0, bounds=bounds): a point of the box, the value of f there
\* and the success flag.
minimize(x0, bounds) ==
    UNION {{[x |-> Pt(p), fun |-> v, success |-> s] :
               v \in {o \in f(Flat(p)) : ~IsRaise(o)}, s \in BOOLEAN} :
           p \in Box(bounds)}

\* Mutants of Update: the comparison dropped, and "<=" for "<".
Update_last(best, r) == [min_x |-> r.x, min_f |-> r.fun]
Update_le(best, r) ==
    IF Le(r.fun, best.min_f) THEN [min_x |-> r.x, min_f |-> r.fun] ELSE best

\* Mutant of Update: the result of a run that reports failure is skipped.
Update_if_success(best, r) ==
    IF r.success /\ Lt(r.fun, best.min_f)
       THEN [min_x |-> r.x, min_f |-> r.fun] ELSE best

\* "if res.fun < min_f: min_x = res.x; min_f = res.fun".
Update(best, r) ==
    IF Lt(r.fun, best.min_f) THEN [min_x |-> r.x, min_f |-> r.fun] ELSE best

\* min_x and min_f after the first k of a sequence of results of minimize.
RECURSIVE optimize_01(_, _)
optimize_01(results, k) ==
    IF k = 0 THEN [min_x |-> NoPoint, min_f |-> PosInf]
    ELSE Update(optimize_01(results, k - 1), results[k])

\* Mutant of Enter: suggest keeps the model it was handed on the policy.
Enter_storing_model(caller, gp, t, bounds, num_restarts) ==
    /\ pc = "idle"
    /\ pc' = "optimize_01"
    /\ frame' = [caller |-> caller, gp |-> gp, truth |-> t,
                 bounds |-> bounds, num_restarts |-> num_restarts]
    /\ n' = 0
    /\ x_0' = NoPoint
    /\ res' = NoResult
    /\ min_f' = PosInf
    /\ min_x' = NoPoint
    /\ hist' = <<>>
    /\ critical' = FALSE
    /\ ret' = Outcome("call", None, NoPoint, num_restarts)
    /\ self' = IF caller = "suggest" THEN self @@ [gp |-> gp] ELSE self
    /\ UNCHANGED <<loggerVars, setters, targetArg, suggested>>

\* Entering optimize_01(f, bounds, num_restarts).
Enter(caller, gp, t, bounds, num_restarts) ==
    /\ pc = "idle"
    /\ pc' = "optimize_01"
    /\ frame' = [caller |-> caller, gp |-> gp, truth |-> t,
                 bounds |-> bounds, num_restarts |-> num_restarts]
    /\ n' = 0
    /\ x_0' = NoPoint
    /\ res' = NoResult
    /\ min_f' = optimize_01(<<>>, 0).min_f
    /\ min_x' = optimize_01(<<>>, 0).min_x
    /\ hist' = <<>>
    /\ critical' = FALSE
    /\ ret' = Outcome("call", None, NoPoint, num_restarts)
    /\ UNCHANGED <<loggerVars, objectVars>>

\* optimize_01(f, bounds, num_restarts) called with a caller's own f.
call_optimize_01 ==
    /\ self = NoObject
    /\ \E bounds \in BoundsLists : \E num_restarts \in 0..MaxRestarts :
        Enter("optimize_01", NoModel, NoTruth, bounds, num_restarts)

\* policy.suggest(gp, n_restarts).
policy_suggest ==
    /\ self.cls \in PolicyClasses
    /\ \E gp \in Models : \E n_restarts \in 0..MaxRestarts :
        Enter("suggest", gp, NoTruth, gp.bounds, n_restarts)

\* TargetPerformance.__call__(gp, truth, n_restarts), up to its suggest.
evaluator_call ==
    /\ self.cls = "TargetPerformance"
    /\ \E gp \in Models : \E t \in Truths : \E n_restarts \in 0..MaxRestarts :
        Enter("__call__", gp, t, gp.bounds, n_restarts)

\* One pass of the restart loop.  An exception raised by f leaves
\* optimize_01 and its caller.
Restart ==
    /\ pc = "optimize_01"
    /\ n < frame.num_restarts
    /\ \E x0 \in UniformDraws(frame.bounds) :
        /\ x_0' = Pt(x0)
        /\ IF frame.caller # "optimize_01" /\ AcquisitionExits(Policy)
              THEN /\ pc' = "exited"
                   /\ ret' = Exited(frame.caller, frame.num_restarts)
                   /\ UNCHANGED <<n, res, min_f, min_x, hist>>
              ELSE \E o \in f(Flat(x0)) :
                    IF IsRaise(o)
                       THEN /\ pc' = "returned"
                            /\ ret' = Outcome(frame.caller, o, NoPoint,
                                              frame.num_restarts)
                            /\ UNCHANGED <<n, res, min_f, min_x, hist>>
                       ELSE \E r \in minimize(x0, frame.bounds) :
                            /\ res' = r
                            /\ min_f' = Update([min_x |-> min_x, min_f |-> min_f], r).min_f
                            /\ min_x' = Update([min_x |-> min_x, min_f |-> min_f], r).min_x
                            /\ hist' = Append(hist, r)
                            /\ n' = n + 1
                            /\ pc' = pc
                            /\ ret' = ret
    /\ UNCHANGED <<loggerVars, objectVars, frame, critical>>

\* Mutant of TargetPerformance_score: the sign flip forgotten.
TargetPerformance_score_unsigned(evaluator, gt) ==
    ArraySum(<<Mul(objective(evaluator._policy, gt), evaluator._weight)>>)

\* (-self._policy.objective(gt) * self._weight).sum().item()
TargetPerformance_score(evaluator, gt) ==
    ArraySum(<<Mul(Neg(objective(evaluator._policy, gt)), evaluator._weight)>>)

\* What the caller of optimize_01 makes of the point it returned.
Returned(estimated) ==
    IF frame.caller = "__call__"
       THEN Outcome("__call__",
                    TargetPerformance_score(self, truth(frame.truth, estimated)),
                    estimated, frame.num_restarts)
       ELSE Outcome(frame.caller, None, estimated, frame.num_restarts)

\* After the loop: "if min_x is None: logger.critical(...)", "return min_x",
\* and the rest of the caller.
Finish ==
    /\ pc = "optimize_01"
    /\ n = frame.num_restarts
    /\ critical' = (min_x = NoPoint)
    /\ IF min_x = NoPoint /\ SinkExits("CRITICAL")
          THEN /\ pc' = "exited"
               /\ ret' = Exited(frame.caller, frame.num_restarts)
          ELSE /\ pc' = "returned"
               /\ ret' = Returned(min_x)
    /\ UNCHANGED <<loggerVars, objectVars, frame, n, x_0, res, min_f, min_x,
                   hist>>

\* The call has ended: its frame and locals are gone, the session goes on
\* with the outcome.
Leave ==
    /\ pc = "returned"
    /\ pc' = "idle"
    /\ frame' = NoFrame
    /\ n' = 0
    /\ x_0' = NoPoint
    /\ res' = NoResult
    /\ min_f' = PosInf
    /\ min_x' = NoPoint
    /\ hist' = <<>>
    /\ critical' = FALSE
    /\ suggested' = (suggested \/ frame.caller = "suggest")
    /\ UNCHANGED <<loggerVars, self, setters, targetArg, ret>>

Next ==
    \/ configure_loggers
    \/ disable_logger_enter
    \/ disable_logger_exit
    \/ policy_set_weight
    \/ policy_set_target
    \/ policy_set_ybest
    \/ evaluator_set_target
    \/ evaluator_set_weight
    \/ policy_acquisition
    \/ call_optimize_01
    \/ policy_suggest
    \/ evaluator_call
    \/ Restart
    \/ Finish
    \/ Leave

Spec == Init /\ [][Next]_vars

(***************************************************************************)
(* Properties.                                                             *)
(***************************************************************************)
\* optimize_01 ran all its restarts and returned min_x to its caller.
Completed == pc = "returned" /\ n = frame.num_restarts

\* optimize_01 ran all its restarts and then returned or ended the process.
Ended == pc \in {"returned", "exited"} /\ n = frame.num_restarts

\* Restart i of this call is the one whose candidate is held in min_x.
Holds(i) == min_x = hist[i].x /\ min_f = hist[i].fun

\* C1 as stated: when at least one restart yields a finite value, the point
\* returned is the candidate of a restart whose value is less than or equal
\* to the value of every other restart's candidate.
C1_AsStated ==
    (Completed /\ \E i \in 1..Len(hist) : IsFinite(hist[i].fun))
    => \E i \in 1..Len(hist) :
          /\ Holds(i)
          /\ \A j \in 1..Len(hist) : j # i => Le(hist[i].fun, hist[j].fun)

\* C1 as amended: when at least one restart yields a finite value, the point
\* returned is the candidate of a restart whose value is less than or equal
\* to the value of every other restart whose value is not NaN (a NaN value
\* compares false and is passed over).
C1_MinimumOverComparable ==
    (Completed /\ \E i \in 1..Len(hist) : IsFinite(hist[i].fun))
    => \E i \in 1..Len(hist) :
          /\ Holds(i)
          /\ hist[i].fun # NaN
          /\ \A j \in 1..Len(hist) :
                (j # i /\ hist[j].fun # NaN) => Le(hist[i].fun, hist[j].fun)

C1_Witness ==
    /\ Completed
    /\ Len(hist) >= 2
    /\ \E i, j \in 1..Len(hist) :
          /\ Holds(i)
          /\ IsFinite(hist[i].fun)
          /\ IsFinite(hist[j].fun)
          /\ Lt(hist[i].fun, hist[j].fun)

\* C2 as stated: a call with num_restarts = 0 never returns to its caller,
\* whatever the state of the logger; it ends in the exit of the process.
C2_ZeroRestartsNeverReturn ==
    (frame.caller # "none" /\ frame.num_restarts = 0) => pc # "returned"

C4_SuggestWithinBounds ==
    frame.caller \in {"suggest", "__call__"} =>
        /\ x_0 # NoPoint => InBox(x_0.p, frame.gp.bounds)
        /\ min_x # NoPoint => InBox(min_x.p, frame.gp.bounds)
        /\ (pc = "returned" /\ ret.how = "return" /\ ret.x # NoPoint)
           => InBox(ret.x.p, frame.gp.bounds)

C4_Witness ==
    /\ pc = "returned"
    /\ ret.op = "suggest"
    /\ ret.how = "return"
    /\ ret.x # NoPoint
    /\ Len(frame.gp.bounds) = 2
    /\ self.cls = "ExploitationTargetPolicy"

\* C5: for a fixed sequence of results of minimize, the minimum tracked
\* after m restarts is less than or equal to the minimum tracked after
\* n <= m restarts, and the running call holds the minimum of the restarts
\* it has done.
C5_MonotoneInRestarts ==
    frame.caller # "none" =>
        /\ min_f = optimize_01(hist, Len(hist)).min_f
        /\ min_x = optimize_01(hist, Len(hist)).min_x
        /\ \A a \in 0..Len(hist) : \A b \in a..Len(hist) :
              Le(optimize_01(hist, b).min_f, optimize_01(hist, a).min_f)

C5_Witness ==
    /\ Completed
    /\ Len(hist) >= 2
    /\ Lt(hist[1].fun, hist[2].fun)
    /\ IsFinite(hist[1].fun)
    /\ \E a \in 0..Len(hist) : \E b \in a..Len(hist) :
          Lt(optimize_01(hist, b).min_f, optimize_01(hist, a).min_f)

\* C6 as stated: with target, ybest and weight set to finite values,
\* ExpectedImprovementPolicy.acquisition on a batch of one point returns a
\* finite value >= 0.
C6_ExpectedImprovementReturns ==
    (/\ pc = "idle"
     /\ ret.op = "acquisition"
     /\ ret.size = 1
     /\ self.cls = "ExpectedImprovementPolicy"
     /\ {"set_target", "set_ybest"} \subseteq setters
     /\ IsFinite(self._target) /\ IsFinite(self._ybest) /\ IsFinite(self._weight))
    => (ret.how = "return" /\ IsFinite(ret.val) /\ ret.val.v >= 0)

\* The precondition violations of C7: ExploitationTargetPolicy before
\* set_target, ExpectedImprovementPolicy before set_target or before
\* set_ybest, ExpectedImprovementPolicy.acquisition on more than one point.
PreconditionViolated ==
    \/ self.cls = "ExploitationTargetPolicy" /\ "set_target" \notin setters
    \/ self.cls = "ExpectedImprovementPolicy"
          /\ ~({"set_target", "set_ybest"} \subseteq setters)
    \/ self.cls = "ExpectedImprovementPolicy"
          /\ ret.op = "acquisition" /\ ret.size > 1

\* C7: acquisition, and suggest with n_restarts >= 1, called with a
\* precondition violated, end in a raised exception and never in a value.
C7_ViolationsRaise ==
    (/\ PreconditionViolated
     /\ \/ ret.op = "acquisition"
        \/ ret.op = "suggest" /\ ret.size >= 1)
    => (ret.how = "raise" /\ IsRaise(ret.val))

C7_Witness ==
    /\ ret.op = "suggest"
    /\ ret.size >= 1
    /\ self.cls = "ExploitationTargetPolicy"
    /\ "set_target" \notin setters
    /\ "set_weight" \in setters
    /\ ret.how = "raise"

\* The squared distance between the target and y_true, times the weight.
WeightedSquaredDistance(target, y_true, weight) ==
    (target.v - y_true.v) * (target.v - y_true.v) * weight.v

\* C8: with target and weight set (to finite values), the evaluation returns
\* the squared distance between the target and the ground truth at the point
\* suggest returned, times the evaluator's weight: 0 when the ground truth
\* equals the target, and non-negative for a non-negative weight.
C8_EvaluationIsWeightedSquaredDistance ==
    (/\ Completed
     /\ frame.caller = "__call__"
     /\ min_x # NoPoint
     /\ IsFinite(self._policy._target)
     /\ IsFinite(self._weight))
    => /\ ret.x = min_x
       /\ ret.how = "return"
       /\ ret.val = Num(WeightedSquaredDistance(self._policy._target,
                            truth(frame.truth, min_x), self._weight))
       /\ truth(frame.truth, min_x) = self._policy._target => ret.val = Num(0)
       /\ self._weight.v >= 0 => ret.val.v >= 0

C8_Witness ==
    /\ Completed
    /\ frame.caller = "__call__"
    /\ ret.how = "return"
    /\ ret.x = min_x
    /\ min_x # NoPoint
    /\ self._weight = Num(3)
    /\ ret.val = Num(3)

\* C9: the internal policy of a TargetPerformance keeps the default weight
\* 1.0, and its target is the value last passed to
\* TargetPerformance.set_target.
C9_InternalPolicyFrame ==
    self.cls = "TargetPerformance" =>
        /\ self._policy._weight = Num(1)
        /\ self._policy._target = targetArg
        /\ self._policy._ybest = None

C9_Witness ==
    /\ self.cls = "TargetPerformance"
    /\ {"set_weight", "set_target"} \subseteq setters
    /\ self._weight = Num(3)
    /\ targetArg = Num(1)
    /\ ret.op = "__call__"
    /\ pc = "idle"

\* C10 as stated: the weight of a policy is always a finite number, never
\* None.
C10_WeightAlwaysFinite ==
    self.cls \in PolicyClasses => IsFinite(self._weight)

\* A step of acquisition or of suggest, from the call to the return.
SuggestOrAcquisitionStep ==
    \/ frame.caller = "suggest"
    \/ frame'.caller = "suggest"
    \/ pc = "idle" /\ ret'.op = "acquisition"

\* suggest returned a point (or None) to its caller.
SuggestReturned == pc = "returned" /\ ret.op = "suggest" /\ ret.how = "return"

\* The point suggest returns is computed from the model handed to this call,
\* the policy's configuration and the draws of this call alone.
C11_ResultFromThisCall ==
    SuggestReturned
    => /\ ret.x = optimize_01(hist, Len(hist)).min_x
       /\ \A i \in 1..Len(hist) :
             /\ hist[i].x.p \in UniformDraws(frame.gp.bounds)
             /\ hist[i].fun \in aq(self, Flat(hist[i].x.p), frame.gp)

\* C11: acquisition and suggest leave the policy object as it was (target,
\* ybest and weight unchanged, no attribute added, so no reference to the
\* model kept), and the point a suggest call returns is a function of the
\* model, the configuration and the random draws of that call, whether or
\* not suggest was called on the policy before.
C11_SuggestKeepsNoHistory ==
    /\ []C11_ResultFromThisCall
    /\ [][SuggestOrAcquisitionStep => self' = self]_vars

\* A second suggest call on a policy returned a point.
C11_Witness == SuggestReturned /\ suggested /\ ret.x # NoPoint

\* MaxVariancePolicy.acquisition has just been called on a batch of the
\* model's box.
MaxVarianceCalled ==
    pc = "idle" /\ ret.op = "acquisition" /\ self.cls = "MaxVariancePolicy"

\* sum over the batch of weight * sd(x)^2, for one of the models.
WeightedVariance ==
    {ArraySum([i \in 1..ret.size |-> Mul(Sq(gp.sd), self._weight)]) :
        gp \in Models}

\* C12: MaxVariancePolicy.acquisition never fails when target and ybest are
\* unset, and its result is the sum of weight * sd(x)^2, whatever target
\* and ybest are.
C12_MaxVarianceNeedsNoTarget ==
    MaxVarianceCalled
    => /\ ret.how = "return"
       /\ ~IsRaise(ret.val)
       /\ ret.val \in WeightedVariance

\* The factors c > 0 of the runs, and those that are powers of two.
ScaleFactors == {Num(2), Num(3), Num(4), Num(7)}
PowersOfTwo == {Num(2), Num(4)}

\* The policy after set_weight(c * w), w being its weight.
Scaled(policy, c) == set_weight(policy, Mul(c, policy._weight))

\* acquisition has just been called on a policy of one of the two classes,
\* its weight a number and its target, where it needs one, set.
ScalableCalled ==
    /\ pc = "idle"
    /\ ret.op = "acquisition"
    /\ self.cls \in {"MaxVariancePolicy", "ExploitationTargetPolicy"}
    /\ IsFinite(self._weight)
    /\ self.cls \in RequiresTarget => IsFinite(self._target)

\* The outputs of a policy's acquisition on the batches of a model's box.
Outputs(policy, gp) ==
    [x \in Batches(gp) |-> acquisition(policy, x, gp, <<>>)]

\* Scaling the weight by c multiplies the output at every x by exactly c.
ScalesExactly(c) ==
    \A gp \in Models :
        LET before == Outputs(self, gp)
            after == Outputs(Scaled(self, c), gp)
        IN  \A x \in Batches(gp) : after[x] = Mul(c, before[x])

\* Scaling the weight by c leaves the order of any two candidates as it was.
KeepsOrder(c) ==
    \A gp \in Models :
        LET before == Outputs(self, gp)
            after == Outputs(Scaled(self, c), gp)
        IN  \A x1 \in Batches(gp) : \A x2 \in Batches(gp) :
                Lt(before[x1], before[x2]) <=> Lt(after[x1], after[x2])

\* The output of the call is the acquisition of the policy as it is now.
OutputOfPolicy ==
    \E gp \in Models : \E x \in Batches(gp) :
        ret.val = acquisition(self, x, gp, <<>>)

ScalesUpToRounding(c) ==
    \A gp \in Models :
        LET before == Outputs(self, gp)
            after == Outputs(Scaled(self, c), gp)
        IN  \A x \in Batches(gp) :
                /\ after[x].k = Mul(c, before[x]).k
                /\ IsFinite(after[x]) =>
                      Abs(after[x].v - Mul(c, before[x]).v)
                          <= 8 * Ulp(Mul(c, before[x]).v, 1)

EarliestLowest(i) ==
    /\ Holds(i)
    /\ \A j \in 1..(i - 1) : ~Le(hist[j].fun, hist[i].fun)
    /\ \A j \in (i + 1)..Len(hist) : ~Lt(hist[j].fun, hist[i].fun)

\* C14: optimize_01 never consults the success flag of a result: whether
\* its runs report success or failure, the point tracked is that of the
\* earliest restart with the lowest value (on equal values the earlier
\* restart's point is kept), none only when no value is below +inf, and the
\* point returned is the tracked one.
C14_SuccessNeverConsulted ==
    frame.caller # "none" =>
        /\ (\E i \in 1..Len(hist) : Lt(hist[i].fun, PosInf))
              => \E i \in 1..Len(hist) : EarliestLowest(i)
        /\ (\A i \in 1..Len(hist) : ~Lt(hist[i].fun, PosInf))
              => min_x = NoPoint
        /\ (Completed /\ ret.how = "return") => ret.x = min_x

\* optimize_01 returned the point of a failed first run whose value a
\* successful second run at another point equalled.
C14_Witness ==
    /\ Completed
    /\ ret.op = "optimize_01"
    /\ Len(hist) = 2
    /\ IsFinite(hist[1].fun)
    /\ hist[1].fun = hist[2].fun
    /\ hist[1].x # hist[2].x
    /\ ~hist[1].success
    /\ hist[2].success
    /\ ret.x = hist[1].x
====
